---- MODULE Spec2Model ----
(***************************************************************************)
(* Model of the greenlight release dashboard: the schema migration guard   *)
(* (initializeDatabase), the release repository (fetchRecentReleases,      *)
(* fetchReleaseById, createRelease, deleteRelease) and the request         *)
(* handlers that call them.  Every awaited storage call is one atomic     *)
(* step of the request that issues it; requests interleave between steps. *)
(***************************************************************************)
EXTENDS Integers, Sequences, FiniteSets, TLC

\* ------------------------------------------------------------------ bounds
MaxColdLists == 2     \* GET requests issued against a store that starts empty
MaxCreates == 2       \* POST requests issued against a store that starts migrated
MaxDeletes == 2       \* DELETE requests issued against a store that starts migrated
MaxFaults == 1        \* storage calls that fail for an external reason
MaxTime == 1          \* last value of the CURRENT_TIMESTAMP clock
MaxRows == 3          \* releases in a store that fetchRecentReleases is called on directly
MaxLimit == 2         \* largest limit passed to fetchRecentReleases directly
MaxTickets == 2       \* ticket rows in a store that fetchReleaseById is called on directly
MaxAnon == 2          \* requests that arrive without the identity header

\* --------------------------------------------------------------- constants
CURRENT_SCHEMA_VERSION == 2
DefaultLimit == 10

NULL == "NULL"
NullTime == -1
Users == {"a@x.com", "b@x.com"}
\* one request slot per client; a client sends its requests one after the other
Procs == Users
SchemaKey == "DB_SCHEMA_VERSION"

VARIABLES
    APP_STATE,       \* the key-value namespace: key -> string (sequence of characters)
    schema,          \* which tables and columns the relational store has
    releases,        \* rows of table releases, row i has id i
    excluded_tickets,\* rows of table excluded_tickets, row i has id i
    lastRowid,       \* last_insert_rowid() of the store's connection
    now,             \* CURRENT_TIMESTAMP of the latest statement that read the clock
    proc,            \* one record per request slot: position and locals
    env,             \* the deployment's configuration (c.env), fixed for a behaviour
    todo,            \* requests of each kind, and without identity, still to be issued
    faults           \* storage faults injected so far

vars == <<APP_STATE, schema, releases, excluded_tickets, lastRowid, now, proc, env, todo, faults>>

\* ------------------------------------------------- strings and conversions
Digits == <<"0", "1", "2", "3", "4", "5", "6", "7", "8", "9">>

IsDigit(c) == \E d \in 1..10 : Digits[d] = c

DigitVal(c) == (CHOOSE d \in 1..10 : Digits[d] = c) - 1

\* Number.prototype.toString for a non-negative integer
RECURSIVE NumToString(_)
NumToString(n) == IF n < 10 THEN <<Digits[n + 1]>> ELSE NumToString(n \div 10) \o <<Digits[(n % 10) + 1]>>

\* value of the leading run of digits of s, given the value acc read so far
RECURSIVE ParseDigits(_, _)
ParseDigits(s, acc) ==
    IF s = <<>> \/ ~IsDigit(Head(s)) THEN acc
    ELSE ParseDigits(Tail(s), acc * 10 + DigitVal(Head(s)))

RECURSIVE SkipSpace(_)
SkipSpace(s) == IF s # <<>> /\ Head(s) = " " THEN SkipSpace(Tail(s)) ELSE s

NaN == [nan |-> TRUE, n |-> 0]

\* parseInt(s): leading blanks skipped, optional sign, then the leading digits;
\* NaN when there is no digit
ParseInt(s) ==
    LET t == SkipSpace(s)
        neg == t # <<>> /\ Head(t) = "-"
        u == IF t # <<>> /\ Head(t) \in {"-", "+"} THEN Tail(t) ELSE t
    IN  IF u = <<>> \/ ~IsDigit(Head(u)) THEN NaN
        ELSE [nan |-> FALSE, n |-> IF neg THEN 0 - ParseDigits(u, 0) ELSE ParseDigits(u, 0)]

\* String(v) of the value a KV get returns: null becomes the text "null"
JsString(v) == IF v.isNull THEN <<"n", "u", "l", "l">> ELSE v.s

\* env.APP_STATE.get(key): the stored string, or null when the key is absent
KvGet(key) ==
    IF key \in DOMAIN APP_STATE THEN [isNull |-> FALSE, s |-> APP_STATE[key]]
    ELSE [isNull |-> TRUE, s |-> <<>>]

\* env.APP_STATE.put(key, value)
KvPut(key, value) == [k \in (DOMAIN APP_STATE) \cup {key} |-> IF k = key THEN value ELSE APP_STATE[k]]

\* parseInt(await env.APP_STATE.get('DB_SCHEMA_VERSION')) || 0
ReadVersion(v) ==
    LET r == ParseInt(JsString(v))
    IN  IF r.nan \/ r.n = 0 THEN 0 ELSE r.n

\* the schema version the store currently holds
StoredVersion == ReadVersion(KvGet(SchemaKey))

\* ------------------------------------------------------------ request slots
NullRow == [id |-> 0, release_date |-> NULL, status |-> NULL, release_type |-> NULL,
            explanation |-> NULL, created_by |-> NULL, created_at |-> NullTime,
            updated_by |-> NULL, updated_at |-> NullTime,
            deleted_at |-> NullTime, deleted_by |-> NULL,
            excluded_tickets |-> <<>>, ticket_summaries |-> <<>>, ticket_urls |-> <<>>]

NoJson == [release_date |-> NULL, status |-> NULL, release_type |-> NULL,
           explanation |-> NULL, tickets |-> <<>>]

IdleProc == [pc |-> "idle", kind |-> "none", userEmail |-> NULL, json |-> NoJson, id |-> 0,
             currentVersion |-> 0, initRet |-> "none", initFaulted |-> FALSE,
             readVersion |-> -1, ddl |-> 0, puts |-> 0, repoOps |-> 0,
             lookups |-> 0, ticketDetails |-> <<>>, releaseId |-> 0, insertedId |-> 0, ticketIds |-> {}, i |-> 0,
             changes |-> 0, wasActive |-> FALSE, limit |-> 0,
             release |-> NullRow, created |-> "none", notification |-> "none",
             success |-> "none", results |-> <<>>, response |-> "none"]

\* the request of slot p with some of its locals changed
Set(p, rec) == [proc EXCEPT ![p] = rec]

\* a storage or network call may fail for an external reason while the fault budget lasts
FaultChoices == IF faults < MaxFaults THEN {FALSE, TRUE} ELSE {FALSE}

Inject(fail) == faults' = faults + (IF fail THEN 1 ELSE 0)

\* ------------------------------------------------- schema migration guard
\* the handler's statement after `await initializeDatabase(db, c.env)`
AfterInit(kind) == IF kind = "list" THEN "list_fetch" ELSE "create_lookup"

\* slip: initializeDatabase without its catch block, the error reaches the handler's
InitRethrow(rec, ret) ==
    IF ret THEN [rec EXCEPT !.initRet = "true", !.pc = AfterInit(rec.kind)]
    ELSE [rec EXCEPT !.pc = "done", !.response = IF rec.kind = "list" THEN "200_error" ELSE "500"]

\* initializeDatabase returns ret; the handler does not look at the value
InitReturn(rec, ret) ==
    [rec EXCEPT !.initRet = IF ret THEN "true" ELSE "false", !.pc = AfterInit(rec.kind)]

\* if (currentVersion === 0)
IsUninitialized(v) == v = 0

\* slip: the migration block also entered at the target version
NeedsMigrationAtTarget(v) == v <= CURRENT_SCHEMA_VERSION

\* if (currentVersion < CURRENT_SCHEMA_VERSION)
NeedsMigration(v) == v < CURRENT_SCHEMA_VERSION

\* const currentVersion = parseInt(await env.APP_STATE.get('DB_SCHEMA_VERSION')) || 0
InitGet(p) ==
    /\ proc[p].pc = "init_get"
    /\ \E fail \in FaultChoices :
        /\ Inject(fail)
        /\ IF fail
           THEN proc' = Set(p, InitReturn([proc[p] EXCEPT !.initFaulted = TRUE], FALSE))
           ELSE LET v == ReadVersion(KvGet(SchemaKey))
                    rec == [proc[p] EXCEPT !.currentVersion = v, !.readVersion = v]
                IN  proc' = Set(p, IF IsUninitialized(v) THEN [rec EXCEPT !.pc = "init_create_releases"]
                                   ELSE IF NeedsMigration(v) THEN [rec EXCEPT !.pc = "init_alter"]
                                   ELSE InitReturn(rec, TRUE))
    /\ UNCHANGED <<APP_STATE, schema, releases, excluded_tickets, lastRowid, now, env, todo>>

\* createInitialSchema: CREATE TABLE IF NOT EXISTS releases (...), without release_type
InitCreateReleases(p) ==
    /\ proc[p].pc = "init_create_releases"
    /\ \E fail \in FaultChoices :
        /\ Inject(fail)
        /\ IF fail
           THEN /\ proc' = Set(p, InitReturn([proc[p] EXCEPT !.initFaulted = TRUE], FALSE))
                /\ UNCHANGED schema
           ELSE /\ schema' = [schema EXCEPT !.releases = TRUE]
                /\ proc' = Set(p, [proc[p] EXCEPT !.pc = "init_create_tickets",
                                                   !.ddl = @ + 1])
    /\ UNCHANGED <<APP_STATE, releases, excluded_tickets, lastRowid, now, env, todo>>

\* createInitialSchema: CREATE TABLE IF NOT EXISTS excluded_tickets (...)
InitCreateTickets(p) ==
    /\ proc[p].pc = "init_create_tickets"
    /\ \E fail \in FaultChoices :
        /\ Inject(fail)
        /\ IF fail
           THEN /\ proc' = Set(p, InitReturn([proc[p] EXCEPT !.initFaulted = TRUE], FALSE))
                /\ UNCHANGED schema
           ELSE /\ schema' = [schema EXCEPT !.excluded_tickets = TRUE]
                /\ proc' = Set(p, [proc[p] EXCEPT !.pc = "init_put1",
                                                   !.ddl = @ + 1])
    /\ UNCHANGED <<APP_STATE, releases, excluded_tickets, lastRowid, now, env, todo>>

\* await env.APP_STATE.put('DB_SCHEMA_VERSION', '1'); then currentVersion (0) < CURRENT_SCHEMA_VERSION
InitPut1(p) ==
    /\ proc[p].pc = "init_put1"
    /\ \E fail \in FaultChoices :
        /\ Inject(fail)
        /\ IF fail
           THEN /\ proc' = Set(p, InitReturn([proc[p] EXCEPT !.initFaulted = TRUE], FALSE))
                /\ UNCHANGED APP_STATE
           ELSE /\ APP_STATE' = KvPut(SchemaKey, <<"1">>)
                /\ LET rec == [proc[p] EXCEPT !.puts = @ + 1]
                   IN  proc' = Set(p, IF NeedsMigration(rec.currentVersion)
                                      THEN [rec EXCEPT !.pc = "init_alter"]
                                      ELSE InitReturn(rec, TRUE))
    /\ UNCHANGED <<schema, releases, excluded_tickets, lastRowid, now, env, todo>>

\* ALTER TABLE releases ADD COLUMN release_type is refused when the table is
\* missing or the column is already there
AlterFails == ~schema.releases \/ schema.release_type

\* slip: the migration statement adds nothing
AddNothing(sch) == sch

\* the store's structure after ADD COLUMN release_type ... NOT NULL DEFAULT 'FULL'
AddReleaseType(sch) == [sch EXCEPT !.release_type = TRUE]

\* applyMigrations(db, currentVersion)
InitAlter(p) ==
    /\ proc[p].pc = "init_alter"
    /\ \E fail \in FaultChoices :
        /\ Inject(fail)
        /\ IF proc[p].currentVersion < 2
           THEN IF fail \/ AlterFails
                THEN /\ proc' = Set(p, InitReturn([proc[p] EXCEPT !.initFaulted = @ \/ fail], FALSE))
                     /\ UNCHANGED <<schema, releases>>
                ELSE /\ schema' = AddReleaseType(schema)
                     /\ releases' = [r \in DOMAIN releases |-> [releases[r] EXCEPT !.release_type = "FULL"]]
                     /\ proc' = Set(p, [proc[p] EXCEPT !.pc = "init_put2", !.ddl = @ + 1])
           ELSE /\ ~fail
                /\ proc' = Set(p, [proc[p] EXCEPT !.pc = "init_put2"])
                /\ UNCHANGED <<schema, releases>>
    /\ UNCHANGED <<APP_STATE, excluded_tickets, lastRowid, now, env, todo>>

\* await env.APP_STATE.put('DB_SCHEMA_VERSION', CURRENT_SCHEMA_VERSION.toString()); return true
InitPut2(p) ==
    /\ proc[p].pc = "init_put2"
    /\ \E fail \in FaultChoices :
        /\ Inject(fail)
        /\ IF fail
           THEN /\ proc' = Set(p, InitReturn([proc[p] EXCEPT !.initFaulted = TRUE], FALSE))
                /\ UNCHANGED APP_STATE
           ELSE /\ APP_STATE' = KvPut(SchemaKey, NumToString(CURRENT_SCHEMA_VERSION))
                /\ proc' = Set(p, InitReturn([proc[p] EXCEPT !.puts = @ + 1], TRUE))
    /\ UNCHANGED <<schema, releases, excluded_tickets, lastRowid, now, env, todo>>

\* ------------------------------------------------------ release repository
\* an issue summary with a comma in it
CommaSummary == "Login, logout broken"

\* the text of a stored value as its pieces: a comma is a piece of its own
TextOf(v) == IF v = CommaSummary THEN <<"Login", ",", " logout broken">> ELSE <<v>>

\* the texts of vals with a comma between each two
RECURSIVE JoinComma(_)
JoinComma(vals) ==
    IF vals = <<>> THEN <<>>
    ELSE IF Len(vals) = 1 THEN TextOf(vals[1])
    ELSE TextOf(vals[1]) \o <<",">> \o JoinComma(Tail(vals))

IsNotNull(v) == v # NULL

\* GROUP_CONCAT(x): the non-NULL values joined with commas, NULL (here the
\* empty sequence) when there is none
GroupConcat(vals) == JoinComma(SelectSeq(vals, IsNotNull))

\* slip: the joined rows taken newest first
TicketsOfReversed(id) ==
    LET match(t) == t.release_id = id
        ts == SelectSeq(excluded_tickets, match)
    IN  [k \in DOMAIN ts |-> ts[Len(ts) + 1 - k]]

\* the excluded_tickets rows joined to release id, in rowid order
TicketsOf(id) ==
    LET match(t) == t.release_id = id
    IN  SelectSeq(excluded_tickets, match)

\* one row of SELECT r.*, GROUP_CONCAT(et.ticket_key) ..., GROUP BY r.id
Joined(r) ==
    LET ts == TicketsOf(r.id)
    IN  [id |-> r.id, release_date |-> r.release_date, status |-> r.status,
         release_type |-> r.release_type, explanation |-> r.explanation,
         created_by |-> r.created_by, created_at |-> r.created_at,
         updated_by |-> r.updated_by, updated_at |-> r.updated_at,
         deleted_at |-> r.deleted_at, deleted_by |-> r.deleted_by,
         excluded_tickets |-> GroupConcat([k \in DOMAIN ts |-> ts[k].ticket_key]),
         ticket_summaries |-> GroupConcat([k \in DOMAIN ts |-> ts[k].ticket_summary]),
         ticket_urls |-> GroupConcat([k \in DOMAIN ts |-> ts[k].ticket_url])]

\* both SELECTs name releases and excluded_tickets
SelectFails == ~schema.releases \/ ~schema.excluded_tickets

\* WHERE r.deleted_at IS NULL
ActiveIds == {id \in DOMAIN releases : releases[id].deleted_at = NullTime}

Min(a, b) == IF a < b THEN a ELSE b

\* slip: the SELECT without `WHERE r.deleted_at IS NULL`
RecentOrdersAnyState(limit) ==
    LET n == Min(limit, Len(releases))
    IN  {s \in [1..n -> DOMAIN releases] :
            /\ \A a, b \in 1..n : a < b => s[a] # s[b] /\ releases[s[a]].created_at >= releases[s[b]].created_at
            /\ \A id \in DOMAIN releases : (\A a \in 1..n : s[a] # id) =>
                   \A a \in 1..n : releases[s[a]].created_at >= releases[id].created_at}

\* WHERE r.deleted_at IS NULL ... ORDER BY r.created_at DESC LIMIT ?: every
\* order the statement may return; rows with equal created_at come in any order
RecentOrders(limit) ==
    LET n == Min(limit, Cardinality(ActiveIds))
    IN  {s \in [1..n -> ActiveIds] :
            /\ \A a, b \in 1..n : a < b => s[a] # s[b] /\ releases[s[a]].created_at >= releases[s[b]].created_at
            /\ \A id \in ActiveIds : (\A a \in 1..n : s[a] # id) =>
                   \A a \in 1..n : releases[s[a]].created_at >= releases[id].created_at}

\* slip: the SELECT with `AND r.deleted_at IS NULL`
SelectByIdActive(id) == IF id \in ActiveIds THEN Joined(releases[id]) ELSE NullRow

\* fetchReleaseById: `result || null`
SelectById(id) == IF id \in DOMAIN releases THEN Joined(releases[id]) ELSE NullRow

\* slip: the tables declared without their CHECK constraints
InsertReleaseFailsUnchecked(release, userEmail) ==
    \/ ~schema.releases
    \/ ~schema.release_type
    \/ release.release_date = NULL
    \/ release.status = NULL
    \/ release.release_type = NULL
    \/ userEmail = NULL

\* INSERT INTO releases (release_date, status, release_type, explanation, created_by):
\* missing table or column, NOT NULL and CHECK constraints; a value that is
\* not given is bound as it is, the column default is not used
InsertReleaseFails(release, userEmail) ==
    \/ ~schema.releases
    \/ ~schema.release_type
    \/ release.release_date = NULL
    \/ release.status \notin {"GO", "NO_GO"}
    \/ release.release_type \notin {"FULL", "HOTFIX"}
    \/ userEmail = NULL

\* slip: the explanation is not stored
OrNullAlways(v) == NULL

\* release.explanation || null
OrNull(v) == IF v = "" THEN NULL ELSE v

\* the row the INSERT adds: AUTOINCREMENT id, created_at DEFAULT CURRENT_TIMESTAMP
NewRelease(release, userEmail, t) ==
    [id |-> Len(releases) + 1, release_date |-> release.release_date,
     status |-> release.status, release_type |-> release.release_type,
     explanation |-> OrNull(release.explanation), created_by |-> userEmail,
     created_at |-> t, updated_by |-> NULL, updated_at |-> NullTime,
     deleted_at |-> NullTime, deleted_by |-> NULL]

\* INSERT INTO excluded_tickets: missing table, NOT NULL, FOREIGN KEY (release_id)
InsertTicketFails(releaseId, ticket, userEmail) ==
    \/ ~schema.excluded_tickets
    \/ ~schema.releases
    \/ releaseId \notin DOMAIN releases
    \/ ticket.key = NULL
    \/ userEmail = NULL

NewTicket(releaseId, ticket, userEmail, t) ==
    [id |-> Len(excluded_tickets) + 1, release_id |-> releaseId, ticket_key |-> ticket.key,
     ticket_summary |-> ticket.summary, ticket_url |-> ticket.url,
     created_by |-> userEmail, created_at |-> t]

\* CURRENT_TIMESTAMP when a statement runs: the clock never goes back
Timestamps == now..MaxTime

\* result.success of a statement that ran without raising, having changed
\* `changes` rows: D1 reports success for every statement that executed
RunSuccess(changes) == TRUE

\* slip: the UPDATE without `AND deleted_at IS NULL`
SoftDeleteAnyState(rows, releaseId) == {id \in DOMAIN rows : id = releaseId}

\* UPDATE releases SET deleted_at = CURRENT_TIMESTAMP, deleted_by = ?
\* WHERE id = ? AND deleted_at IS NULL: the rows the statement changes
SoftDeleteMatches(rows, releaseId) ==
    {id \in DOMAIN rows : id = releaseId /\ rows[id].deleted_at = NullTime}

\* slip: the UPDATE also stamps updated_at and updated_by
SoftDeleteRowsStamped(rows, releaseId, userEmail, t) ==
    [id \in DOMAIN rows |->
        IF id \in SoftDeleteMatches(rows, releaseId)
        THEN [rows[id] EXCEPT !.deleted_at = t, !.deleted_by = userEmail,
                              !.updated_at = t, !.updated_by = userEmail]
        ELSE rows[id]]

\* the table after the UPDATE
SoftDeleteRows(rows, releaseId, userEmail, t) ==
    [id \in DOMAIN rows |->
        IF id \in SoftDeleteMatches(rows, releaseId)
        THEN [rows[id] EXCEPT !.deleted_at = t, !.deleted_by = userEmail]
        ELSE rows[id]]

\* ----------------------------------------------------------------- inputs
\* bodies of POST /api/releases
\* bodies the form sends: it puts '' for an explanation left empty
ValidBodies ==
    {[release_date |-> "2024-06-02", status |-> "GO", release_type |-> "FULL",
      explanation |-> "", tickets |-> <<"ABC-1", "ABC-2">>],
     [release_date |-> "2024-06-03", status |-> "NO_GO", release_type |-> "HOTFIX",
      explanation |-> "rollback risk", tickets |-> <<>>]}

\* bodies another client of the API can send: NO_GO without explanation, no
\* release_type, a status and a release_type outside the enumerations
OtherBodies ==
    {[release_date |-> "2024-06-04", status |-> "NO_GO", release_type |-> "FULL",
      explanation |-> NULL, tickets |-> <<>>],
     [release_date |-> "2024-06-05", status |-> "GO", release_type |-> NULL,
      explanation |-> NULL, tickets |-> <<>>],
     [release_date |-> "2024-06-06", status |-> "MAYBE", release_type |-> "FULL",
      explanation |-> NULL, tickets |-> <<"ABC-1">>],
     [release_date |-> "2024-06-07", status |-> "GO", release_type |-> "PATCH",
      explanation |-> NULL, tickets |-> <<>>]}

JsonBodies == ValidBodies \cup OtherBodies

\* the :id of DELETE /api/releases/:id
DeleteIds == {1, 2}

\* a configuration text is the sequence of its pieces; "," and " " are pieces
\* of their own, so that splitting and trimming work on the text
RECURSIVE Concat(_)
Concat(pieces) == IF pieces = <<>> THEN "" ELSE Head(pieces) \o Concat(Tail(pieces))

\* String.prototype.split(','): always at least one part
RECURSIVE SplitComma(_)
SplitComma(s) ==
    IF \A i \in DOMAIN s : s[i] # "," THEN <<s>>
    ELSE LET i == CHOOSE i \in DOMAIN s : s[i] = "," /\ \A j \in 1..(i - 1) : s[j] # ","
         IN  <<SubSeq(s, 1, i - 1)>> \o SplitComma(SubSeq(s, i + 1, Len(s)))

RECURSIVE TrimStart(_)
TrimStart(s) == IF s # <<>> /\ Head(s) = " " THEN TrimStart(Tail(s)) ELSE s

RECURSIVE TrimEnd(_)
TrimEnd(s) == IF s # <<>> /\ s[Len(s)] = " " THEN TrimEnd(SubSeq(s, 1, Len(s) - 1)) ELSE s

\* String.prototype.trim()
Trim(s) == TrimEnd(TrimStart(s))

\* an environment variable that is not set
Unset == [isNull |-> TRUE, s |-> <<>>]

\* values of ROOT_USERS: unset, both clients, and one client next to an entry
\* that only starts with the other client's address
RootUsersConfigs ==
    {Unset,
     [isNull |-> FALSE, s |-> <<"a@x.com", ",", " ", "b@x.com">>],
     [isNull |-> FALSE, s |-> <<"b@x.com", ".evil", ",", " ", "a@x.com", " ">>]}

\* deployment configurations
EnvConfigs ==
    {[JIRA_API_TOKEN |-> TRUE, JIRA_USER_EMAIL |-> TRUE, NOTIFICATIONS |-> TRUE,
      NOTIFICATION_EMAIL_TO |-> TRUE, ROOT_USERS |-> r] : r \in RootUsersConfigs}

\* deployments with and without the ticket-lookup credentials, both clients root
CredentialConfigs ==
    {[JIRA_API_TOKEN |-> t, JIRA_USER_EMAIL |-> u, NOTIFICATIONS |-> TRUE,
      NOTIFICATION_EMAIL_TO |-> TRUE,
      ROOT_USERS |-> [isNull |-> FALSE, s |-> <<"a@x.com", ",", " ", "b@x.com">>]] :
        t \in BOOLEAN, u \in BOOLEAN}

\* slip: every authenticated user passes
isRootUserAlways(e, userEmail) == TRUE

\* isRootUser: env.ROOT_USERS ? env.ROOT_USERS.split(',').map(email => email.trim()) : [],
\* then rootUsers.includes(userEmail)
isRootUser(e, userEmail) ==
    LET parts == IF ~e.ROOT_USERS.isNull /\ e.ROOT_USERS.s # <<>>
                 THEN SplitComma(e.ROOT_USERS.s) ELSE <<>>
        rootUsers == [k \in DOMAIN parts |-> Concat(Trim(parts[k]))]
    IN  \E k \in DOMAIN rootUsers : rootUsers[k] = userEmail

\* slip: the lookup attempted whatever the configuration
HasCredentialsAlways(e) == TRUE

\* c.env.JIRA_API_TOKEN && c.env.JIRA_USER_EMAIL
HasCredentials(e) == e.JIRA_API_TOKEN /\ e.JIRA_USER_EMAIL

\* `${env.JIRA_BASE_URL}/browse/${ticket}`
BrowseUrl(ticket) == "https://jira/browse/" \o ticket

\* data.fields.summary of the issue
JiraSummary(ticket) == IF ticket = "ABC-2" THEN CommaSummary ELSE "Summary of " \o ticket

\* what `text ? text.split(',')[index] : null` gives for entry index
EntryOf(text, index) ==
    IF text = <<>> THEN NULL
    ELSE IF index \in DOMAIN SplitComma(text) THEN Concat(SplitComma(text)[index])
    ELSE "undefined"

\* renderReleaseRow and sendNotification: the tickets parsed from the three
\* aggregated fields of a release
ParseTickets(release) ==
    IF release.excluded_tickets = <<>> THEN <<>>
    ELSE LET keys == SplitComma(release.excluded_tickets)
         IN  [index \in DOMAIN keys |->
                 [key |-> Concat(keys[index]),
                  summary |-> EntryOf(release.ticket_summaries, index),
                  url |-> EntryOf(release.ticket_urls, index)]]

\* -------------------------------------------------------------- handlers
CanStart(p, kind) == proc[p].pc \in {"idle", "done"} /\ todo[kind] > 0

\* the cf-access-authenticated-user-email header of a request of client p:
\* the address the proxy injects, or none
Headers(p) == {p} \cup (IF todo.anon > 0 THEN {NULL} ELSE {})

Issued(kind, userEmail) ==
    todo' = [todo EXCEPT ![kind] = @ - 1, !.anon = IF userEmail = NULL THEN @ - 1 ELSE @]

\* the handler returns a response; its locals are gone, what the repository
\* calls of the request did is kept for the record
Done(rec, response, results) ==
    [IdleProc EXCEPT !.pc = "done", !.kind = rec.kind, !.userEmail = rec.userEmail,
                     !.initRet = rec.initRet, !.repoOps = rec.repoOps, !.created = rec.created,
                     !.insertedId = rec.insertedId, !.ticketIds = rec.ticketIds,
                     !.response = response, !.results = results]

\* slip: a catch block that renders the list as if nothing had happened
CatchRendersList(rec) == Done(rec, "200_list", <<>>)

\* the handler's catch block: the list handler renders an error fragment,
\* the other two answer 500
Catch(rec) == Done(rec, IF rec.kind = "list" THEN "200_error" ELSE "500", <<>>)

\* the locals of initializeDatabase are gone once the handler has moved on
Leave(rec) ==
    [rec EXCEPT !.currentVersion = 0, !.readVersion = -1, !.ddl = 0, !.puts = 0, !.initFaulted = FALSE]

\* slip: the routes registered without the identity check
requireAuthSkipped(rec, next) == next

\* requireAuth: 401 unless the header holds an address, otherwise
\* c.set('userEmail', userEmail) and next(); rec.userEmail is the header
requireAuth(rec, next) ==
    IF rec.userEmail \in {NULL, ""} THEN Done(rec, "401", <<>>) ELSE next

\* GET /api/releases
handleGetReleases(p) ==
    /\ CanStart(p, "list")
    /\ \E userEmail \in Headers(p) :
        LET rec == [IdleProc EXCEPT !.kind = "list", !.userEmail = userEmail]
        IN  /\ proc' = Set(p, requireAuth(rec, [rec EXCEPT !.pc = "init_get"]))
            /\ Issued("list", userEmail)
    /\ UNCHANGED <<APP_STATE, schema, releases, excluded_tickets, lastRowid, now, env, faults>>

\* POST /api/releases
handleCreateRelease(p) ==
    /\ CanStart(p, "create")
    /\ \E json \in JsonBodies, userEmail \in Headers(p) :
        LET rec == [IdleProc EXCEPT !.kind = "create", !.userEmail = userEmail, !.json = json]
        IN  /\ proc' = Set(p, requireAuth(rec, [rec EXCEPT !.pc = "init_get"]))
            /\ Issued("create", userEmail)
    /\ UNCHANGED <<APP_STATE, schema, releases, excluded_tickets, lastRowid, now, env, faults>>

\* requireRoot: 403 unless the user is a root user, otherwise next()
requireRoot(rec, next) ==
    IF ~isRootUser(env, rec.userEmail) THEN Done(rec, "403", <<>>) ELSE next

\* DELETE /api/releases/:id: requireAuth, requireRoot, then handleDeleteRelease
\* up to its first await
handleDeleteRelease(p) ==
    /\ CanStart(p, "delete")
    /\ \E id \in DeleteIds, userEmail \in Headers(p) :
        LET rec == [IdleProc EXCEPT !.kind = "delete", !.userEmail = userEmail, !.id = id,
                                    !.wasActive = id \in ActiveIds]
        IN  /\ proc' = Set(p, requireAuth(rec, requireRoot(rec, [rec EXCEPT !.pc = "delete_update"])))
            /\ Issued("delete", userEmail)
    /\ UNCHANGED <<APP_STATE, schema, releases, excluded_tickets, lastRowid, now, env, faults>>

\* GET /: the dashboard page, rendered for a root user or not
handleDashboard(p) ==
    /\ CanStart(p, "page")
    /\ \E userEmail \in Headers(p) :
        LET rec == [IdleProc EXCEPT !.kind = "page", !.userEmail = userEmail]
            isRoot == isRootUser(env, userEmail)
        IN  /\ proc' = Set(p, requireAuth(rec, Done(rec, IF isRoot THEN "200_page_root" ELSE "200_page", <<>>)))
            /\ Issued("page", userEmail)
    /\ UNCHANGED <<APP_STATE, schema, releases, excluded_tickets, lastRowid, now, env, faults>>

\* GET /api/validate-jira/:ticketKey: validateJiraTicket answers false without
\* credentials, otherwise response.ok of one call, false when the call raises
handleValidateJiraTicket(p) ==
    /\ CanStart(p, "validate")
    /\ \E userEmail \in Headers(p), ok \in BOOLEAN :
        LET rec == [IdleProc EXCEPT !.kind = "validate", !.userEmail = userEmail]
            called == HasCredentials(env)
        IN  /\ ~called => ~ok
            /\ proc' = Set(p, requireAuth(rec,
                        [Done(rec, IF ok THEN "200_valid" ELSE "200_invalid", <<>>)
                            EXCEPT !.lookups = IF called THEN 1 ELSE 0]))
            /\ Issued("validate", userEmail)
    /\ UNCHANGED <<APP_STATE, schema, releases, excluded_tickets, lastRowid, now, env, faults>>

\* fetchRecentReleases(db, limit) called on its own by client p, once
fetchRecentReleases(p) ==
    /\ \A q \in Procs : proc[q].pc = "idle"
    /\ \E limit \in 1..MaxLimit, fail \in FaultChoices :
        /\ Inject(fail)
        /\ LET rec == [IdleProc EXCEPT !.pc = "done", !.kind = "fetch", !.userEmail = p,
                                        !.repoOps = 1, !.limit = limit]
           IN  IF fail \/ SelectFails
               THEN proc' = Set(p, [rec EXCEPT !.response = "raised"])
               ELSE \E s \in RecentOrders(limit) :
                       proc' = Set(p, [rec EXCEPT !.response = "returned",
                                                  !.results = [k \in DOMAIN s |-> Joined(releases[s[k]])]])
    /\ UNCHANGED <<APP_STATE, schema, releases, excluded_tickets, lastRowid, now, env, todo>>

\* fetchReleaseById(db, id) called on its own by client p, once
fetchReleaseById(p) ==
    /\ \A q \in Procs : proc[q].pc = "idle"
    /\ \E id \in 1..(MaxRows + 1), fail \in FaultChoices :
        /\ Inject(fail)
        /\ LET rec == [IdleProc EXCEPT !.pc = "done", !.kind = "fetchById", !.userEmail = p,
                                        !.repoOps = 1, !.id = id]
           IN  IF fail \/ SelectFails
               THEN proc' = Set(p, [rec EXCEPT !.response = "raised"])
               ELSE proc' = Set(p, [rec EXCEPT !.response = "returned", !.release = SelectById(id)])
    /\ UNCHANGED <<APP_STATE, schema, releases, excluded_tickets, lastRowid, now, env, todo>>

\* fetchRecentReleases(db) as the last step of a handler
FetchList(p) ==
    /\ \E fail \in FaultChoices :
        /\ Inject(fail)
        /\ LET rec == Leave([proc[p] EXCEPT !.repoOps = @ + 1])
           IN  IF fail \/ SelectFails
               THEN proc' = Set(p, Catch(rec))
               ELSE \E s \in RecentOrders(DefaultLimit) :
                       proc' = Set(p, [Done(rec, "200_list", [k \in DOMAIN s |-> Joined(releases[s[k]])])
                                          EXCEPT !.limit = DefaultLimit])
    /\ UNCHANGED <<APP_STATE, schema, releases, excluded_tickets, lastRowid, now, env, todo>>

\* handleGetReleases: const releases = await fetchRecentReleases(db)
ListFetch(p) ==
    /\ proc[p].pc = "list_fetch"
    /\ FetchList(p)

\* handleCreateRelease: Promise.all(tickets.map(...)), then .filter(Boolean);
\* lookups counts the calls of fetchJiraTicketDetails
TicketLookup(p) ==
    /\ proc[p].pc = "create_lookup"
    /\ LET tickets == proc[p].json.tickets
           called == HasCredentials(env)
       IN  \E found \in [DOMAIN tickets -> BOOLEAN] :
             /\ ~called => \A k \in DOMAIN tickets : found[k]
             /\ LET details == [k \in DOMAIN tickets |->
                                  [key |-> IF found[k] THEN tickets[k] ELSE NULL,
                                   summary |-> IF called THEN JiraSummary(tickets[k]) ELSE NULL,
                                   url |-> BrowseUrl(tickets[k])]]
                    truthy(d) == d.key # NULL
                IN  proc' = Set(p, [Leave(proc[p]) EXCEPT !.pc = "create_insert",
                                                   !.lookups = IF called THEN Len(tickets) ELSE 0,
                                                   !.ticketDetails = SelectSeq(details, truthy)])
    /\ UNCHANGED <<APP_STATE, schema, releases, excluded_tickets, lastRowid, now, env, todo, faults>>

\* slip: the catch block of createRelease without its `throw error`
RethrowSwallowed(rec) == [rec EXCEPT !.created = "raised", !.pc = "create_notify"]

\* createRelease: catch (error) { ...; throw error }, which the handler's catch
\* block receives
Rethrow(rec) == Catch([rec EXCEPT !.created = "raised"])

\* createRelease: INSERT INTO releases ...; if (!result.success) throw
CreateInsert(p) ==
    /\ proc[p].pc = "create_insert"
    /\ \E fail \in FaultChoices :
        /\ Inject(fail)
        /\ LET rec == [proc[p] EXCEPT !.repoOps = @ + 1]
           IN  IF fail \/ InsertReleaseFails(rec.json, rec.userEmail)
               THEN /\ proc' = Set(p, Rethrow(rec))
                    /\ UNCHANGED <<releases, lastRowid, now>>
               ELSE \E t \in Timestamps :
                      LET row == NewRelease(rec.json, rec.userEmail, t)
                      IN  /\ releases' = Append(releases, row)
                          /\ lastRowid' = row.id
                          /\ now' = t
                          /\ proc' = Set(p, [rec EXCEPT !.pc = "create_rowid", !.insertedId = row.id])
    /\ UNCHANGED <<APP_STATE, schema, excluded_tickets, env, todo>>

\* slip: the read-back issued without waiting for the ticket loop
AfterRowidNoLoop(rec) == [rec EXCEPT !.pc = "create_fetch"]

\* the statement after the id is known: the ticket loop, or the read-back
AfterRowid(rec) ==
    IF Len(rec.ticketDetails) > 0 THEN [rec EXCEPT !.pc = "create_ticket", !.i = 1]
    ELSE [rec EXCEPT !.pc = "create_fetch"]

\* createRelease: const releaseId = await db.prepare('SELECT last_insert_rowid() as id').first()
CreateRowid(p) ==
    /\ proc[p].pc = "create_rowid"
    /\ \E fail \in FaultChoices :
        /\ Inject(fail)
        /\ IF fail
           THEN proc' = Set(p, Rethrow(proc[p]))
           ELSE proc' = Set(p, AfterRowid([proc[p] EXCEPT !.releaseId = lastRowid]))
    /\ UNCHANGED <<APP_STATE, schema, releases, excluded_tickets, lastRowid, now, env, todo>>

\* createRelease: one pass of `for (const ticket of tickets)`
CreateTicket(p) ==
    /\ proc[p].pc = "create_ticket"
    /\ \E fail \in FaultChoices :
        /\ Inject(fail)
        /\ LET rec == proc[p]
               ticket == rec.ticketDetails[rec.i]
           IN  IF fail \/ InsertTicketFails(rec.releaseId, ticket, rec.userEmail)
               THEN /\ proc' = Set(p, Rethrow(rec))
                    /\ UNCHANGED <<excluded_tickets, lastRowid, now>>
               ELSE \E t \in Timestamps :
                      LET row == NewTicket(rec.releaseId, ticket, rec.userEmail, t)
                      IN  /\ excluded_tickets' = Append(excluded_tickets, row)
                          /\ lastRowid' = row.id
                          /\ now' = t
                          /\ proc' = Set(p, [rec EXCEPT !.ticketIds = @ \cup {row.id},
                                                        !.i = @ + 1,
                                                        !.pc = IF rec.i < Len(rec.ticketDetails)
                                                               THEN "create_ticket" ELSE "create_fetch"])
    /\ UNCHANGED <<APP_STATE, schema, releases, env, todo>>

\* createRelease: return await fetchReleaseById(db, releaseId.id)
CreateFetch(p) ==
    /\ proc[p].pc = "create_fetch"
    /\ \E fail \in FaultChoices :
        /\ Inject(fail)
        /\ IF fail \/ SelectFails
           THEN proc' = Set(p, Rethrow(proc[p]))
           ELSE proc' = Set(p, [proc[p] EXCEPT !.pc = "create_notify", !.created = "returned",
                                               !.release = SelectById(proc[p].releaseId)])
    /\ UNCHANGED <<APP_STATE, schema, releases, excluded_tickets, lastRowid, now, env, todo>>

\* handleCreateRelease: if (c.env.NOTIFICATIONS) await sendNotification(...);
\* release.status of a null release raises before the try block of sendNotification
Notify(p) ==
    /\ proc[p].pc = "create_notify"
    /\ LET rec == proc[p]
       IN  IF ~env.NOTIFICATIONS
           THEN proc' = Set(p, [rec EXCEPT !.pc = "create_list"])
           ELSE IF ~env.NOTIFICATION_EMAIL_TO
           THEN proc' = Set(p, [rec EXCEPT !.pc = "create_list", !.notification = "skipped"])
           ELSE IF rec.release.id = 0
           THEN proc' = Set(p, Catch([rec EXCEPT !.notification = "raised"]))
           ELSE \E sent \in BOOLEAN :
                  proc' = Set(p, [rec EXCEPT !.pc = "create_list",
                                             !.notification = IF sent THEN "sent" ELSE "failed"])
    /\ UNCHANGED <<APP_STATE, schema, releases, excluded_tickets, lastRowid, now, env, todo, faults>>

\* handleCreateRelease: const releases = await fetchRecentReleases(db)
CreateList(p) ==
    /\ proc[p].pc = "create_list"
    /\ FetchList(p)

\* deleteRelease: the UPDATE, then `return result.success`; handleDeleteRelease:
\* if (!success) return 500
DeleteUpdate(p) ==
    /\ proc[p].pc = "delete_update"
    /\ \E fail \in FaultChoices :
        /\ Inject(fail)
        /\ LET rec == [proc[p] EXCEPT !.repoOps = @ + 1]
           IN  IF fail \/ ~schema.releases
               THEN /\ proc' = Set(p, Catch([rec EXCEPT !.success = "raised"]))
                    /\ UNCHANGED <<releases, now>>
               ELSE \E t \in Timestamps :
                    /\ releases' = SoftDeleteRows(releases, rec.id, rec.userEmail, t)
                    /\ now' = t
                    /\ LET success == RunSuccess(Cardinality(SoftDeleteMatches(releases, rec.id)))
                           r2 == [rec EXCEPT !.success = IF success THEN "true" ELSE "false",
                                             !.changes = Cardinality(SoftDeleteMatches(releases, rec.id))]
                       IN  proc' = Set(p, IF ~success THEN Done(r2, "500", <<>>)
                                          ELSE [r2 EXCEPT !.pc = "delete_list"])
    /\ UNCHANGED <<APP_STATE, schema, excluded_tickets, lastRowid, env, todo>>

\* handleDeleteRelease: const releases = await fetchRecentReleases(db)
DeleteList(p) ==
    /\ proc[p].pc = "delete_list"
    /\ FetchList(p)

\* ------------------------------------------------------------ specification
NoKeys == [k \in {} |-> <<>>]

\* a store nothing has touched yet: the key absent or unparseable, no table
ColdStore ==
    /\ APP_STATE \in {NoKeys, [k \in {SchemaKey} |-> <<"x">>]}
    /\ schema = [releases |-> FALSE, excluded_tickets |-> FALSE, release_type |-> FALSE]

\* a store an earlier activation has migrated
WarmStore ==
    /\ APP_STATE = [k \in {SchemaKey} |-> NumToString(CURRENT_SCHEMA_VERSION)]
    /\ schema = [releases |-> TRUE, excluded_tickets |-> TRUE, release_type |-> TRUE]

\* no row yet
Empty ==
    /\ releases = <<>>
    /\ excluded_tickets = <<>>

\* what one earlier POST has left: a release and its two tickets
Stocked ==
    /\ releases = <<[id |-> 1, release_date |-> "2024-06-01", status |-> "GO",
                     release_type |-> "FULL", explanation |-> NULL, created_by |-> "a@x.com",
                     created_at |-> 0, updated_by |-> NULL, updated_at |-> NullTime,
                     deleted_at |-> NullTime, deleted_by |-> NULL]>>
    /\ excluded_tickets =
          <<[id |-> 1, release_id |-> 1, ticket_key |-> "ABC-1", ticket_summary |-> JiraSummary("ABC-1"),
             ticket_url |-> BrowseUrl("ABC-1"), created_by |-> "a@x.com", created_at |-> 0],
            [id |-> 2, release_id |-> 1, ticket_key |-> "ABC-2", ticket_summary |-> JiraSummary("ABC-2"),
             ticket_url |-> BrowseUrl("ABC-2"), created_by |-> "a@x.com", created_at |-> 0]>>

\* a new connection, no request yet
Quiet ==
    /\ lastRowid = 0
    /\ now = 0
    /\ proc = [p \in Procs |-> IdleProc]
    /\ faults = 0

Fresh == Empty /\ Quiet

\* a deployment in which both clients are root users
AllRoot == env \in {e \in EnvConfigs : \A u \in Users : isRootUser(e, u)}

\* cold start: mostly GET requests, each running the migration guard
InitCold == ColdStore /\ Fresh /\ AllRoot /\ todo = [list |-> MaxColdLists, create |-> 1, delete |-> 1, page |-> 0, validate |-> 0, anon |-> 0]

\* a migrated store, mostly DELETE requests
InitDelete == WarmStore /\ Fresh /\ env \in EnvConfigs /\ todo = [list |-> 1, create |-> 1, delete |-> MaxDeletes, page |-> 0, validate |-> 0, anon |-> 0]

\* a migrated store, empty or not, and POST requests only
InitCreate ==
    WarmStore /\ (Empty \/ Stocked) /\ Quiet /\ AllRoot /\ todo = [list |-> 0, create |-> MaxCreates, delete |-> 0, page |-> 0, validate |-> 0, anon |-> 0]

\* a release row as createRelease and deleteRelease leave it
StoredRelease(id, created, deleted) ==
    [id |-> id, release_date |-> "2024-06-02", status |-> "GO", release_type |-> "FULL",
     explanation |-> NULL, created_by |-> "a@x.com", created_at |-> created,
     updated_by |-> NULL, updated_at |-> NullTime,
     deleted_at |-> deleted, deleted_by |-> IF deleted = NullTime THEN NULL ELSE "b@x.com"]

\* tables of up to MaxRows releases: created_at does not decrease with the id,
\* a release is active or was deleted at or after its creation
StoredTables ==
    UNION {{[i \in 1..n |-> StoredRelease(i, c[i], d[i])] :
               c \in {f \in [1..n -> 0..MaxTime] : \A i, j \in 1..n : i < j => f[i] <= f[j]},
               d \in [1..n -> {NullTime} \cup 0..MaxTime]} : n \in 0..MaxRows}

\* a migrated store holding some releases, for direct calls of fetchRecentReleases
InitList ==
    /\ WarmStore /\ Quiet /\ AllRoot
    /\ releases \in {t \in StoredTables : \A i \in DOMAIN t : t[i].deleted_at \in {NullTime} \cup t[i].created_at..MaxTime}
    /\ excluded_tickets = <<>>
    /\ todo = [list |-> 0, create |-> 0, delete |-> 0, page |-> 0, validate |-> 0, anon |-> 0]

\* a ticket row as createRelease leaves it
StoredTicket(id, releaseId) ==
    [id |-> id, release_id |-> releaseId, ticket_key |-> "ABC-" \o NumToString(id)[1],
     ticket_summary |-> NULL, ticket_url |-> BrowseUrl("ABC-" \o NumToString(id)[1]),
     created_by |-> "a@x.com", created_at |-> MaxTime]

\* tables of up to MaxTickets ticket rows, each of a stored release
StoredTicketTables ==
    UNION {{[i \in 1..n |-> StoredTicket(i, r[i])] : r \in [1..n -> DOMAIN releases]} : n \in 0..MaxTickets}

\* a migrated store holding releases, active or deleted, and tickets, for
\* direct calls of fetchReleaseById
InitById ==
    /\ WarmStore /\ Quiet /\ AllRoot
    /\ releases \in {t \in StoredTables : \A i \in DOMAIN t : t[i].created_at = 0}
    /\ excluded_tickets \in StoredTicketTables
    /\ todo = [list |-> 0, create |-> 0, delete |-> 0, page |-> 0, validate |-> 0, anon |-> 0]

\* a migrated store and one request of each kind, under each combination of
\* the lookup credentials
InitLookup ==
    WarmStore /\ Fresh /\ env \in CredentialConfigs /\ todo = [list |-> 1, create |-> 1, delete |-> 1, page |-> 0, validate |-> 0, anon |-> 0]

\* a migrated store and one request to each route that uses the store, or one
\* to each route that does not; up to MaxAnon of them arrive without identity
InitAuth ==
    /\ WarmStore /\ Fresh /\ AllRoot
    /\ todo \in {[list |-> 1, create |-> 1, delete |-> 1, page |-> 0, validate |-> 0, anon |-> MaxAnon],
                 [list |-> 0, create |-> 0, delete |-> 0, page |-> 1, validate |-> 1, anon |-> MaxAnon]}

Init == InitCold \/ InitDelete \/ InitCreate \/ InitList \/ InitById \/ InitLookup \/ InitAuth

Next ==
    \/ \E p \in Procs : handleGetReleases(p)
    \/ \E p \in Procs : handleCreateRelease(p)
    \/ \E p \in Procs : handleDeleteRelease(p)
    \/ \E p \in Procs : InitGet(p)
    \/ \E p \in Procs : InitCreateReleases(p)
    \/ \E p \in Procs : InitCreateTickets(p)
    \/ \E p \in Procs : InitPut1(p)
    \/ \E p \in Procs : InitAlter(p)
    \/ \E p \in Procs : InitPut2(p)
    \/ \E p \in Procs : ListFetch(p)
    \/ \E p \in Procs : TicketLookup(p)
    \/ \E p \in Procs : CreateInsert(p)
    \/ \E p \in Procs : CreateRowid(p)
    \/ \E p \in Procs : CreateTicket(p)
    \/ \E p \in Procs : CreateFetch(p)
    \/ \E p \in Procs : Notify(p)
    \/ \E p \in Procs : CreateList(p)
    \/ \E p \in Procs : DeleteUpdate(p)
    \/ \E p \in Procs : DeleteList(p)

\* The steps left once the store is at CURRENT_SCHEMA_VERSION: the guard reads
\* the version and returns true, so createInitialSchema, applyMigrations and
\* the two puts are never entered (nothing in the program lowers the version).
NextMigrated ==
    \/ \E p \in Procs : handleGetReleases(p)
    \/ \E p \in Procs : handleCreateRelease(p)
    \/ \E p \in Procs : handleDeleteRelease(p)
    \/ \E p \in Procs : InitGet(p)
    \/ \E p \in Procs : ListFetch(p)
    \/ \E p \in Procs : TicketLookup(p)
    \/ \E p \in Procs : CreateInsert(p)
    \/ \E p \in Procs : CreateRowid(p)
    \/ \E p \in Procs : CreateTicket(p)
    \/ \E p \in Procs : CreateFetch(p)
    \/ \E p \in Procs : Notify(p)
    \/ \E p \in Procs : CreateList(p)
    \/ \E p \in Procs : DeleteUpdate(p)
    \/ \E p \in Procs : DeleteList(p)

\* the steps of POST requests at a migrated store
NextCreate ==
    \/ \E p \in Procs : handleCreateRelease(p)
    \/ \E p \in Procs : InitGet(p)
    \/ \E p \in Procs : TicketLookup(p)
    \/ \E p \in Procs : CreateInsert(p)
    \/ \E p \in Procs : CreateRowid(p)
    \/ \E p \in Procs : CreateTicket(p)
    \/ \E p \in Procs : CreateFetch(p)
    \/ \E p \in Procs : Notify(p)
    \/ \E p \in Procs : CreateList(p)

\* the routes that touch no store
NextPages ==
    \/ \E p \in Procs : handleDashboard(p)
    \/ \E p \in Procs : handleValidateJiraTicket(p)

\* direct calls of the repository's list operation
NextList == \E p \in Procs : fetchRecentReleases(p)

\* direct calls of the repository's lookup by id
NextById == \E p \in Procs : fetchReleaseById(p)

Spec == Init /\ [][Next \/ NextPages \/ NextList \/ NextById]_vars

SpecList == InitList /\ [][NextList]_vars

SpecById == InitById /\ [][NextById]_vars

SpecCold == InitCold /\ [][Next]_vars

SpecDelete == InitDelete /\ [][NextMigrated]_vars

SpecCreate == InitCreate /\ [][NextCreate]_vars

SpecLookup == InitLookup /\ [][NextMigrated]_vars

SpecAuth == InitAuth /\ [][NextMigrated \/ NextPages]_vars

\* ------------------------------------------------------------- properties
\* initializeDatabase has just returned to the handler of client p
ReturnedFromInit(p) == proc[p].initRet # "none" /\ proc[p].pc \in {"list_fetch", "create_lookup"}

\* client p is the only one that has sent a request so far
Alone(p) == \A q \in Procs \ {p} : proc[q].pc = "idle"

\* C1: deleteRelease returns true exactly when its UPDATE changed a row, and
\* false (no change) on an already deleted or unknown id
C1_ReturnsWhetherChanged ==
    \A p \in Procs :
        proc[p].success \in {"true", "false"} => (proc[p].success = "true" <=> proc[p].changes = 1)

\* C2: once deleted_at is set no step clears or overwrites deleted_at or
\* deleted_by, and no listing produced from then on contains the release
C2_DeletedIsTerminal ==
    [][\A id \in DOMAIN releases :
          releases[id].deleted_at # NullTime =>
              /\ id \in DOMAIN releases'
              /\ releases'[id].deleted_at = releases[id].deleted_at
              /\ releases'[id].deleted_by = releases[id].deleted_by
              /\ \A p \in Procs :
                    proc[p].pc # "done" /\ proc'[p].pc = "done" =>
                        \A k \in DOMAIN proc'[p].results : proc'[p].results[k].id # id]_vars

\* a second soft delete, by another user, has run on a release that was deleted already
C2_Witness ==
    \E p \in Procs :
        /\ proc[p].pc = "delete_list"
        /\ proc[p].changes = 0
        /\ proc[p].id \in DOMAIN releases
        /\ releases[proc[p].id].deleted_at # NullTime
        /\ releases[proc[p].id].deleted_by # proc[p].userEmail

\* C3: after a storage failure, a later call of initializeDatabase that meets
\* no failure itself returns true and leaves the stored version at
\* CURRENT_SCHEMA_VERSION (calls made one after the other by one client)
C3_RetryReachesTarget ==
    \A p \in Procs :
        ReturnedFromInit(p) /\ Alone(p) /\ faults > 0 /\ ~proc[p].initFaulted =>
            proc[p].initRet = "true" /\ StoredVersion = CURRENT_SCHEMA_VERSION

\* C4: no step replaces the stored schema version by a smaller one
C4_VersionMonotonic == [][StoredVersion' >= StoredVersion]_vars

\* C5: when two calls of initializeDatabase that both read version 0 have both
\* returned, and no storage call failed, the stored version is
\* CURRENT_SCHEMA_VERSION and releases has the release_type column
C5_ConcurrentColdStart ==
    (faults = 0 /\ \A p \in Procs : ReturnedFromInit(p) /\ proc[p].readVersion = 0) =>
        StoredVersion = CURRENT_SCHEMA_VERSION /\ schema.release_type

\* C6: a call of initializeDatabase that reads version 0, meets no failure and
\* runs alone returns true, leaves the stored version at 2 and leaves both
\* tables present, releases with the release_type column
C6_FreshInit ==
    \A p \in Procs :
        ReturnedFromInit(p) /\ Alone(p) /\ proc[p].readVersion = 0 /\ ~proc[p].initFaulted =>
            /\ proc[p].initRet = "true"
            /\ StoredVersion = 2
            /\ schema.releases /\ schema.excluded_tickets /\ schema.release_type

\* the first call on an untouched store has returned without any failure
C6_Witness ==
    \E p \in Procs :
        /\ ReturnedFromInit(p) /\ Alone(p) /\ proc[p].readVersion = 0
        /\ faults = 0 /\ proc[p].initRet = "true"
        /\ todo.list + todo.create + todo.delete = MaxColdLists + 1
        /\ proc[p].ddl = 3 /\ proc[p].puts = 2

\* C7: a call of initializeDatabase that reads the version CURRENT_SCHEMA_VERSION
\* returns true, having run no DDL statement and written nothing to the
\* key-value store
C7_NoOpAtTarget ==
    \A p \in Procs :
        ReturnedFromInit(p) /\ proc[p].readVersion = CURRENT_SCHEMA_VERSION =>
            proc[p].initRet = "true" /\ proc[p].ddl = 0 /\ proc[p].puts = 0

\* a second call in a row: the first one brought the store to the target version
C7_Witness ==
    \E p \in Procs :
        /\ ReturnedFromInit(p) /\ Alone(p) /\ proc[p].readVersion = CURRENT_SCHEMA_VERSION
        /\ proc[p].kind = "list" /\ proc[p].initRet = "true"

\* C8: a request whose initializeDatabase returned false issues no repository
\* operation and is answered with an error
C8_RefusesAfterFailedInit ==
    \A p \in Procs :
        proc[p].initRet = "false" =>
            proc[p].repoOps = 0 /\ (proc[p].pc = "done" => proc[p].response \in {"200_error", "500"})

\* C9: once createRelease has raised after its parent insert succeeded, the
\* store holds neither that release row nor any ticket row the call wrote
C9_CreateAtomic ==
    \A p \in Procs :
        proc[p].created = "raised" /\ proc[p].insertedId # 0 =>
            /\ proc[p].insertedId \notin DOMAIN releases
            /\ \A t \in proc[p].ticketIds : t \notin DOMAIN excluded_tickets

\* C10: the ticket rows a createRelease call writes carry the id of the release
\* row the same call inserted, and the call returns that release with exactly
\* the tickets it was given
C10_ConcurrentCreatesIndependent ==
    \A p \in Procs :
        /\ \A t \in proc[p].ticketIds : excluded_tickets[t].release_id = proc[p].insertedId
        /\ proc[p].created = "returned" /\ proc[p].pc \in {"create_notify", "create_list"} =>
              /\ proc[p].release.id = proc[p].insertedId
              /\ proc[p].release.excluded_tickets =
                     JoinComma([k \in DOMAIN proc[p].ticketDetails |-> proc[p].ticketDetails[k].key])

\* C11: when two soft deletes of one release were both sent while it was
\* active, at most one of them gets the answer that it changed the release,
\* and deleted_by is the user of the one whose UPDATE changed the row
C11_AtMostOneDeleteSucceeds ==
    \A p, q \in Procs :
        /\ p # q
        /\ proc[p].pc = "delete_list" /\ proc[q].pc = "delete_list"
        /\ proc[p].id = proc[q].id
        /\ proc[p].wasActive /\ proc[q].wasActive
        => /\ ~(proc[p].success = "true" /\ proc[q].success = "true")
           /\ proc[p].changes = 1 => releases[proc[p].id].deleted_by = proc[p].userEmail

\* the allow-list: the trimmed entries of the comma-separated ROOT_USERS
AllowList ==
    IF env.ROOT_USERS.isNull THEN {}
    ELSE LET parts == SplitComma(env.ROOT_USERS.s)
         IN  {Concat(Trim(parts[k])) : k \in DOMAIN parts}

\* C12: a DELETE request of a user who is no entry of the allow-list (also
\* when ROOT_USERS is unset) is answered 403 at once, deleteRelease is not
\* called for it and its step leaves every release row as it was
C12_DeleteIsRootOnly ==
    [][\A p \in Procs :
          proc'[p].kind = "delete" /\ proc'[p].userEmail \notin AllowList =>
              /\ proc'[p].pc = "done"
              /\ proc'[p].response = "403"
              /\ proc'[p].repoOps = 0
              /\ proc'[p] # proc[p] => releases' = releases]_vars

\* a user outside a configured allow-list was refused while an active release existed
C12_Witness ==
    \E p \in Procs :
        /\ proc[p].kind = "delete" /\ proc[p].response = "403"
        /\ AllowList # {}
        /\ proc[p].userEmail \notin AllowList
        /\ ActiveIds # {}

\* the ticket rows of release id that carry the key
RowsWithKey(id, key) ==
    {t \in DOMAIN excluded_tickets :
        excluded_tickets[t].release_id = id /\ excluded_tickets[t].ticket_key = key}

\* C13: once createRelease has returned for a request that ran alone and met
\* no storage failure, every ticket key of the request body has exactly one
\* ticket row of the new release, whether or not its lookup succeeded
C13_LookupFailureKeepsTicket ==
    \A p \in Procs :
        proc[p].created = "returned" /\ proc[p].pc \in {"create_notify", "create_list"}
        /\ Alone(p) /\ faults = 0 =>
            \A k \in DOMAIN proc[p].json.tickets :
                Cardinality(RowsWithKey(proc[p].insertedId, proc[p].json.tickets[k])) = 1

\* C14: a create request whose createRelease returned, and which met no
\* storage failure, is answered with the release list whatever happened in
\* sendNotification, and the rows of the release stay in the store
C14_NotificationNeverBlocks ==
    \A p \in Procs :
        proc[p].pc = "done" /\ proc[p].kind = "create" /\ proc[p].created = "returned" /\ faults = 0 =>
            /\ proc[p].response = "200_list"
            /\ proc[p].insertedId \in DOMAIN releases
            /\ \A t \in proc[p].ticketIds : t \in DOMAIN excluded_tickets

\* createRelease has just returned to the handler of client p
ReturnedFromCreate(p) ==
    proc[p].created = "returned" /\ proc[p].pc \in {"create_notify", "create_list"}

\* C15: for a request with status in {GO, NO_GO} and release_type in
\* {FULL, HOTFIX} that runs alone, the release createRelease reads back has
\* the submitted release_date, status and release_type, the submitted
\* explanation (null when it is absent or empty), an id that is a stored
\* row, created_by the acting user, created_at set and deleted_at null
C15_CreateRoundTrip ==
    \A p \in Procs :
        ReturnedFromCreate(p) /\ Alone(p)
        /\ proc[p].json.status \in {"GO", "NO_GO"} /\ proc[p].json.release_type \in {"FULL", "HOTFIX"} =>
            LET in == proc[p].json
                out == proc[p].release
            IN  /\ out.id \in DOMAIN releases /\ out.id = proc[p].insertedId
                /\ out.release_date = in.release_date
                /\ out.status = in.status
                /\ out.release_type = in.release_type
                /\ out.explanation = (IF in.explanation \in {NULL, ""} THEN NULL ELSE in.explanation)
                /\ out.created_by = proc[p].userEmail
                /\ out.created_at # NullTime
                /\ out.deleted_at = NullTime

\* a NO_GO release with an explanation was created and read back
C15_Witness ==
    \E p \in Procs :
        /\ ReturnedFromCreate(p) /\ Alone(p)
        /\ proc[p].json.status = "NO_GO" /\ proc[p].json.explanation = "rollback risk"
        /\ proc[p].release.explanation = "rollback risk"

\* C16: the release createRelease returns to a request that runs alone lists
\* exactly the keys of the tickets passed in, in that order (no ticket field
\* at all for zero tickets), and every ticket row written has created_by
\* equal to the acting user, like the release
C16_TicketRoundTrip ==
    \A p \in Procs :
        ReturnedFromCreate(p) /\ Alone(p) =>
            LET tickets == proc[p].ticketDetails
                out == proc[p].release
            IN  /\ Cardinality(proc[p].ticketIds) = Len(tickets)
                /\ IF tickets = <<>> THEN out.excluded_tickets = <<>>
                   ELSE SplitComma(out.excluded_tickets) = [k \in DOMAIN tickets |-> <<tickets[k].key>>]
                /\ out.created_by = proc[p].userEmail
                /\ \A t \in proc[p].ticketIds :
                      /\ excluded_tickets[t].created_by = proc[p].userEmail
                      /\ excluded_tickets[t].release_id = out.id

\* a release with the two tickets ABC-1, ABC-2 was created and read back
C16_Witness ==
    \E p \in Procs :
        /\ ReturnedFromCreate(p) /\ Alone(p)
        /\ Len(proc[p].ticketDetails) = 2
        /\ proc[p].release.excluded_tickets = <<"ABC-1", ",", "ABC-2">>

\* C17: a listing produced with limit N holds no more than N releases, all of
\* them stored with deleted_at null at that moment, none twice, in descending
\* order of created_at; it holds all active releases if there are at most N,
\* and otherwise N of them such that no active release left out is newer
\* than one returned
C17_ListActive ==
    [][\A p \in Procs :
          proc[p].pc # "done" /\ proc'[p].pc = "done" /\ proc'[p].response \in {"returned", "200_list"} =>
              LET res == proc'[p].results
                  N == proc'[p].limit
                  active == {id \in DOMAIN releases : releases[id].deleted_at = NullTime}
                  listed == {res[k].id : k \in DOMAIN res}
              IN  /\ Len(res) <= N
                  /\ listed \subseteq active
                  /\ \A k \in DOMAIN res : res[k].deleted_at = NullTime
                  /\ \A a, b \in DOMAIN res : a < b =>
                        res[a].id # res[b].id /\ res[a].created_at >= res[b].created_at
                  /\ Cardinality(active) <= N => listed = active
                  /\ Cardinality(active) > N => Len(res) = N
                  /\ \A id \in active \ listed :
                        \A k \in DOMAIN res : releases[id].created_at <= res[k].created_at]_vars

\* a listing cut by its limit was produced from a store that also holds a deleted release
C17_Witness ==
    \E p \in Procs :
        /\ proc[p].pc = "done" /\ proc[p].kind = "fetch" /\ proc[p].response = "returned"
        /\ Cardinality(ActiveIds) > proc[p].limit
        /\ Len(proc[p].results) = proc[p].limit
        /\ \E id \in DOMAIN releases : releases[id].deleted_at # NullTime

\* C18: the INSERT of a create request that gives no release_type (and a
\* valid date and status), run on a migrated store without a storage
\* failure, adds a release whose release_type is FULL
C18_ReleaseTypeDefaultsToFull ==
    [][\A p \in Procs :
          /\ proc[p].pc = "create_insert" /\ proc'[p] # proc[p]
          /\ proc[p].json.release_type = NULL
          /\ proc[p].json.status \in {"GO", "NO_GO"} /\ proc[p].json.release_date # NULL
          /\ schema.releases /\ schema.release_type /\ faults' = faults
          => /\ proc'[p].created # "raised"
             /\ Len(releases') = Len(releases) + 1
             /\ releases'[Len(releases')].release_type = "FULL"]_vars

\* status and release_type of a row are values of their enumerations
ValidEnums(row) == row.status \in {"GO", "NO_GO"} /\ row.release_type \in {"FULL", "HOTFIX"}

\* C19: every stored release has status in {GO, NO_GO} and release_type in
\* {FULL, HOTFIX}; the INSERT of a create request whose status or
\* release_type is outside these sets raises, the request is answered 500,
\* and no release row and no ticket row is added
C19_EnumsEnforced ==
    [][/\ \A id \in DOMAIN releases : ValidEnums(releases[id])
       /\ \A id \in DOMAIN releases' : ValidEnums(releases'[id])
       /\ \A p \in Procs :
             proc[p].pc = "create_insert" /\ proc'[p] # proc[p] /\ ~ValidEnums(proc[p].json) =>
                 /\ proc'[p].created = "raised"
                 /\ proc'[p].pc = "done" /\ proc'[p].response = "500"
                 /\ releases' = releases
                 /\ excluded_tickets' = excluded_tickets]_vars

\* a create was refused by the INSERT itself: no storage failure was injected
\* and the tables were there
C19_Witness ==
    \E p \in Procs :
        /\ proc[p].pc = "done" /\ proc[p].kind = "create"
        /\ proc[p].created = "raised" /\ proc[p].insertedId = 0 /\ proc[p].repoOps = 1
        /\ faults = 0 /\ schema.releases /\ schema.release_type

\* C20: no stored release has status NO_GO and a null explanation
C20_NoGoNeedsExplanation ==
    \A id \in DOMAIN releases :
        releases[id].status = "NO_GO" => releases[id].explanation # NULL

\* the positions of a request inside initializeDatabase
InitPcs == {"init_get", "init_create_releases", "init_create_tickets", "init_put1", "init_alter", "init_put2"}

\* C21: every step of initializeDatabase either goes on inside it or returns a
\* boolean to the handler, which goes on; a step on which a key-value call
\* or a structural statement fails returns false; and true is returned only
\* when no call failed and every statement and write the version read calls
\* for was carried out
C21_InitNeverThrows ==
    [][\A p \in Procs :
          proc[p].pc \in InitPcs /\ proc'[p] # proc[p] =>
              LET rec == proc'[p]
                  returned == rec.pc = AfterInit(rec.kind) /\ rec.initRet \in {"true", "false"}
              IN  /\ rec.pc \in InitPcs \/ returned
                  /\ rec.pc \in InitPcs => rec.initRet = "none"
                  /\ faults' > faults => returned /\ rec.initRet = "false"
                  /\ proc[p].pc = "init_alter" /\ proc[p].currentVersion < 2 /\ AlterFails =>
                        returned /\ rec.initRet = "false"
                  /\ returned /\ rec.initRet = "true" =>
                        /\ ~rec.initFaulted
                        /\ rec.readVersion = 0 => rec.ddl = 3 /\ rec.puts = 2
                        /\ rec.readVersion = 1 => rec.ddl = 1 /\ rec.puts = 1
                        /\ rec.readVersion >= 2 => rec.ddl = 0 /\ rec.puts = 0]_vars

\* a call has returned false after a failure that came in the middle of its work
C21_Witness ==
    \E p \in Procs :
        /\ ReturnedFromInit(p) /\ proc[p].initRet = "false"
        /\ proc[p].initFaulted /\ proc[p].ddl >= 1

\* the keys of the ticket rows of release id, in the order of their insertion
KeysOf(id) ==
    LET match(t) == t.release_id = id
        ts == SelectSeq(excluded_tickets, match)
    IN  [k \in DOMAIN ts |-> ts[k].ticket_key]

\* C22: fetchReleaseById called with the id of a stored release, active or
\* soft-deleted, returns that release, its delete markers included, with the
\* keys of its tickets; called with an id no row has it returns null; it raises
\* only when the storage call itself fails
C22_GetByIdUnfiltered ==
    [][\A p \in Procs :
          proc'[p].kind = "fetchById" /\ proc'[p] # proc[p] =>
              LET id == proc'[p].id
                  out == proc'[p].release
              IN  /\ faults' = faults <=> proc'[p].response = "returned"
                  /\ faults' > faults <=> proc'[p].response = "raised"
                  /\ proc'[p].response = "returned" /\ id \notin DOMAIN releases => out = NullRow
                  /\ proc'[p].response = "returned" /\ id \in DOMAIN releases =>
                        /\ out.id = id
                        /\ out.status = releases[id].status
                        /\ out.release_date = releases[id].release_date
                        /\ out.created_at = releases[id].created_at
                        /\ out.deleted_at = releases[id].deleted_at
                        /\ out.deleted_by = releases[id].deleted_by
                        /\ IF KeysOf(id) = <<>> THEN out.excluded_tickets = <<>>
                           ELSE SplitComma(out.excluded_tickets) = [k \in DOMAIN KeysOf(id) |-> <<KeysOf(id)[k]>>]]_vars

\* a soft-deleted release that has tickets was returned
C22_Witness ==
    \E p \in Procs :
        /\ proc[p].kind = "fetchById" /\ proc[p].response = "returned"
        /\ proc[p].release.id = proc[p].id /\ proc[p].id \in DOMAIN releases
        /\ proc[p].release.deleted_at # NullTime
        /\ proc[p].release.excluded_tickets # <<>>

\* C23: a request that has issued a repository operation has called
\* initializeDatabase before and has got its result
C23_GuardBeforeRepository ==
    \A p \in Procs :
        proc[p].kind \in {"list", "create", "delete"} /\ proc[p].repoOps > 0 =>
            proc[p].initRet \in {"true", "false"}

\* a release row with its delete markers blanked
Unmarked(row) == [row EXCEPT !.deleted_at = NullTime, !.deleted_by = NULL]

\* C24: no step removes a row or changes a ticket row; a step changes nothing
\* of an existing release but its deleted_at and deleted_by; a step of a
\* create request changes no existing release at all; the UPDATE of a delete
\* request changes no release other than the one it names; updated_by and
\* updated_at are null in every row
C24_RowsImmutable ==
    [][/\ Len(releases') >= Len(releases)
       /\ Len(excluded_tickets') >= Len(excluded_tickets)
       /\ \A t \in DOMAIN excluded_tickets : excluded_tickets'[t] = excluded_tickets[t]
       /\ \A id \in DOMAIN releases : Unmarked(releases'[id]) = Unmarked(releases[id])
       /\ \A id \in DOMAIN releases' :
             releases'[id].updated_by = NULL /\ releases'[id].updated_at = NullTime
       /\ \A p \in Procs :
             /\ proc[p].kind = "create" /\ proc'[p] # proc[p] =>
                   \A id \in DOMAIN releases : releases'[id] = releases[id]
             /\ proc[p].pc = "delete_update" /\ proc'[p] # proc[p] =>
                   /\ Len(releases') = Len(releases)
                   /\ excluded_tickets' = excluded_tickets
                   /\ \A id \in DOMAIN releases : id # proc[p].id => releases'[id] = releases[id]]_vars

\* a soft delete has changed a release that has ticket rows
C24_Witness ==
    \E p \in Procs :
        /\ proc[p].pc = "delete_list" /\ proc[p].changes = 1
        /\ releases[proc[p].id].deleted_by = proc[p].userEmail
        /\ \E t \in DOMAIN excluded_tickets : excluded_tickets[t].release_id = proc[p].id

\* C25: in a create call a ticket INSERT is issued only once the release
\* INSERT has completed; the k-th ticket INSERT carries the k-th ticket of the
\* list and is issued once the k-1 before it have completed; and the
\* read-back is issued only once every ticket of the list has been inserted
C25_CreateOrder ==
    [][\A p \in Procs :
          proc'[p] # proc[p] =>
              /\ proc[p].pc = "create_ticket" =>
                    /\ proc[p].insertedId # 0
                    /\ proc[p].i = Cardinality(proc[p].ticketIds) + 1
                    /\ Len(excluded_tickets') > Len(excluded_tickets) =>
                          LET row == excluded_tickets'[Len(excluded_tickets')]
                          IN  /\ row.ticket_key = proc[p].ticketDetails[proc[p].i].key
                              /\ \A t \in proc[p].ticketIds : t < row.id
                              /\ proc'[p].ticketIds = proc[p].ticketIds \cup {row.id}
              /\ proc[p].pc # "create_ticket" => excluded_tickets' = excluded_tickets
              /\ proc[p].pc = "create_fetch" =>
                    /\ proc[p].insertedId # 0
                    /\ Cardinality(proc[p].ticketIds) = Len(proc[p].ticketDetails)
              /\ proc'[p].pc = "create_fetch" =>
                    /\ proc'[p].insertedId # 0
                    /\ Cardinality(proc'[p].ticketIds) = Len(proc'[p].ticketDetails)]_vars

\* a create call has inserted its release and two tickets and has read the release back
C25_Witness ==
    \E p \in Procs :
        ReturnedFromCreate(p) /\ proc[p].insertedId # 0 /\ Cardinality(proc[p].ticketIds) = 2

\* the statements of createRelease
CreatePcs == {"create_insert", "create_rowid", "create_ticket", "create_fetch"}

\* C26: in a create request every ticket lookup is over before the release
\* INSERT is issued, sendNotification is called only once createRelease has
\* returned a release, and a request whose createRelease raised is answered
\* without any call of sendNotification
C26_CollaboratorOrder ==
    [][\A p \in Procs :
          proc'[p] # proc[p] =>
              /\ proc'[p].lookups # proc[p].lookups /\ proc'[p].pc # "done" =>
                    /\ proc[p].pc = "create_lookup"
                    /\ proc[p].repoOps = 0 /\ proc[p].insertedId = 0
              /\ proc[p].pc = "create_insert" =>
                    /\ proc[p].lookups = Len(proc[p].json.tickets)
                    /\ proc[p].notification = "none"
              /\ proc[p].pc \in CreatePcs => proc'[p].notification = "none"
              /\ proc[p].pc = "create_notify" =>
                    /\ proc[p].created = "returned"
                    /\ proc[p].insertedId \in DOMAIN releases
                    /\ proc[p].notification = "none"
              /\ proc'[p].notification # "none" => proc[p].pc = "create_notify"
              /\ proc'[p].created = "raised" =>
                    /\ proc[p].pc \in CreatePcs
                    /\ proc'[p].pc = "done" /\ proc'[p].response = "500"
                    /\ proc'[p].notification = "none"]_vars

\* a notification was sent for a release with two tickets that were looked up
C26_Witness ==
    \E p \in Procs :
        /\ proc[p].pc = "create_list" /\ proc[p].notification = "sent"
        /\ proc[p].lookups = 2 /\ proc[p].created = "returned"

\* the row of ticket key written by the create request of client p
FallbackRows(p, key) ==
    {t \in proc'[p].ticketIds :
        /\ excluded_tickets'[t].ticket_key = key
        /\ excluded_tickets'[t].release_id = proc'[p].insertedId
        /\ excluded_tickets'[t].ticket_summary = NULL
        /\ excluded_tickets'[t].ticket_url = BrowseUrl(key)}

\* C27: when JIRA_API_TOKEN or JIRA_USER_EMAIL is not set, no request ever
\* calls the ticket lookup; the tickets handed to createRelease are the
\* submitted keys with a null summary and the browse URL of the key; no
\* statement of createRelease raises for a body with valid enumerations unless
\* storage fails; and when createRelease returns, every submitted key has
\* exactly one ticket row of the new release, with null summary and that URL
C27_NoCredentialsFallback ==
    [][~env.JIRA_API_TOKEN \/ ~env.JIRA_USER_EMAIL =>
          \A p \in Procs :
              proc'[p] # proc[p] =>
                  LET tickets == proc[p].json.tickets
                  IN  /\ proc'[p].lookups = 0
                      /\ proc[p].pc = "create_lookup" =>
                            proc'[p].ticketDetails =
                                [k \in DOMAIN tickets |->
                                    [key |-> tickets[k], summary |-> NULL, url |-> BrowseUrl(tickets[k])]]
                      /\ proc[p].pc \in CreatePcs /\ faults' = faults
                         /\ proc[p].json.status \in {"GO", "NO_GO"}
                         /\ proc[p].json.release_type \in {"FULL", "HOTFIX"} =>
                            proc'[p].created # "raised"
                      /\ proc'[p].pc = "create_notify" =>
                            /\ Cardinality(proc'[p].ticketIds) = Len(tickets)
                            /\ \A k \in DOMAIN tickets : Cardinality(FallbackRows(p, tickets[k])) = 1]_vars

\* without credentials a release with two tickets was created: two rows
\* without summary
C27_Witness ==
    /\ ~env.JIRA_API_TOKEN \/ ~env.JIRA_USER_EMAIL
    /\ \E p \in Procs :
          /\ proc[p].pc = "create_list" /\ proc[p].created = "returned"
          /\ Cardinality(proc[p].ticketIds) = 2
          /\ \A t \in proc[p].ticketIds : excluded_tickets[t].ticket_summary = NULL

\* the statements of fetchRecentReleases, createRelease and deleteRelease
RepositoryPcs == {"list_fetch", "create_list", "delete_list", "delete_update"} \cup CreatePcs

\* the statement client p is about to issue fails in this step: for an
\* external reason, or because the store rejects it
StorageFails(p) ==
    \/ faults' > faults
    \/ proc[p].pc \in {"list_fetch", "create_list", "delete_list", "create_fetch"} /\ SelectFails
    \/ proc[p].pc = "create_insert" /\ InsertReleaseFails(proc[p].json, proc[p].userEmail)
    \/ proc[p].pc = "create_ticket"
       /\ InsertTicketFails(proc[p].releaseId, proc[p].ticketDetails[proc[p].i], proc[p].userEmail)
    \/ proc[p].pc = "delete_update" /\ ~schema.releases

\* C28: when a statement of fetchRecentReleases, createRelease or
\* deleteRelease fails, the request ends in that step (the statement is not
\* issued again and no row changes), createRelease is recorded as having
\* raised, and the response is the error fragment or 500 with no list in it
C28_StorageErrorsPropagate ==
    [][\A p \in Procs :
          proc'[p] # proc[p] /\ proc[p].pc \in RepositoryPcs /\ StorageFails(p) =>
              /\ proc'[p].pc = "done"
              /\ proc'[p].response = (IF proc[p].kind = "list" THEN "200_error" ELSE "500")
              /\ proc'[p].results = <<>>
              /\ proc[p].pc \in CreatePcs => proc'[p].created = "raised"
              /\ proc'[p].repoOps <= proc[p].repoOps + 1
              /\ releases' = releases /\ excluded_tickets' = excluded_tickets]_vars

\* a create request answered 500 after its release row was written
C28_Witness ==
    \E p \in Procs :
        /\ proc[p].pc = "done" /\ proc[p].kind = "create" /\ proc[p].created = "raised"
        /\ proc[p].insertedId \in DOMAIN releases /\ proc[p].response = "500"
        /\ faults = 1

\* C29: the release createRelease returns to a request that runs alone parses,
\* as renderReleaseRow and sendNotification parse it, into one entry per
\* ticket row of the release, in rowid order, entry i carrying the key, the
\* summary and the url of row i
C29_ParallelLists ==
    \A p \in Procs :
        ReturnedFromCreate(p) /\ Alone(p) /\ proc[p].release.id # 0 =>
            LET rows == TicketsOf(proc[p].release.id)
                parsed == ParseTickets(proc[p].release)
            IN  /\ Len(parsed) = Len(rows)
                /\ \A i \in DOMAIN rows :
                      /\ parsed[i].key = rows[i].ticket_key
                      /\ parsed[i].summary = rows[i].ticket_summary
                      /\ parsed[i].url = rows[i].ticket_url

\* C30: a request that arrives without the identity header, on any route, is
\* answered 401 in the step that receives it, with no call of
\* initializeDatabase, no repository call, no ticket lookup, no notification
\* and no change of the store; 401 is the answer to no other request; a
\* handler only ever runs with the client's injected address as userEmail,
\* and every created_by and deleted_by written is that address
C30_IdentityGuard ==
    [][\A p \in Procs :
          proc'[p] # proc[p] =>
              /\ todo'.anon < todo.anon =>
                    /\ proc'[p].pc = "done" /\ proc'[p].response = "401"
                    /\ proc'[p].initRet = "none" /\ proc'[p].repoOps = 0
                    /\ proc'[p].lookups = 0 /\ proc'[p].notification = "none"
                    /\ proc'[p].insertedId = 0 /\ proc'[p].ticketIds = {}
                    /\ UNCHANGED <<APP_STATE, schema, releases, excluded_tickets, lastRowid>>
              /\ proc'[p].response = "401" => todo'.anon < todo.anon
              /\ proc'[p].pc \notin {"idle", "done"} => proc'[p].userEmail = p
              /\ Len(releases') > Len(releases) => releases'[Len(releases')].created_by = p
              /\ Len(excluded_tickets') > Len(excluded_tickets) =>
                    excluded_tickets'[Len(excluded_tickets')].created_by = p
              /\ \A id \in DOMAIN releases :
                    releases'[id].deleted_by # releases[id].deleted_by => releases'[id].deleted_by = p]_vars

\* a request without identity was answered 401, and a release created and
\* deleted by the clients carries their addresses
C30_Witness ==
    \E p \in Procs :
        /\ proc[p].pc = "done" /\ proc[p].response = "401"
        /\ \E id \in DOMAIN releases :
              releases[id].created_by \in Procs /\ releases[id].deleted_by \in Procs
====
